---- MODULE Spec2Model ----
(***************************************************************************)
(* A model of source/s3_client.c: the reference-counted lifecycle of       *)
(* struct aws_s3_client (aws_s3_client_new / acquire / release and the     *)
(* connection manager's shutdown callback) and the per-request pipeline    *)
(* s3_client_make_request -> signing -> connection acquisition -> stream   *)
(* -> finish.  The signer, the connection manager, the HTTP stream and the *)
(* request object are the environment: their calls into this file are the  *)
(* actions, their results are chosen with \E.                              *)
(***************************************************************************)
EXTENDS Integers, Naturals, Sequences, FiniteSets, TLC

(* ---- bounds ----------------------------------------------------------- *)
NumCallers == 2
MaxAcquire == 1
NumRequests == 1
MaxBody == 1
MaxBlocks == 2
MaxCode == 2
SizeBits == 16

Callers == 1..NumCallers
Requests == 1..NumRequests
Codes == 0..MaxCode
ErrCodes == 1..MaxCode
\* size_t arithmetic of the two atomic counters (width reduced to SizeBits)
SizeMod == 2^SizeBits
\* the points at which aws_s3_client_new can fail after its argument checks
FailPoints == {"none", "calloc", "region", "endpoint", "manager"}

VARIABLES
    config,     \* the aws_s3_client_config handed to aws_s3_client_new
    client,     \* struct aws_s3_client: its memory and its fields
    env,        \* what the client's handles refer to: provider, manager, strings
    obs,        \* what the caller observes: return value, raised error, callbacks
    held,       \* held[t]: references caller t holds and has not released
    rel_pc,     \* rel_pc[t]: where caller t stands inside aws_s3_client_release
    req,        \* req[r]: struct aws_s3_request as far as the pipeline uses it
    calls       \* calls[r]: the aws_s3_request_* handler calls made on request r

vars == <<config, client, env, obs, held, rel_pc, req, calls>>

(* ---- the client ------------------------------------------------------- *)
\* no client: aws_s3_client_new has not allocated one
NoClient ==
    [mem |-> "none", ref_count |-> 0, shutdown_wait_count |-> 0,
     credentials_provider |-> FALSE, connection_manager |-> FALSE,
     region |-> FALSE, endpoint |-> FALSE, shutdown_callback |-> FALSE]

\* the lifecycle state the operators below transform
State == [client |-> client, env |-> env, obs |-> obs]

SetState(s) ==
    /\ client' = s.client
    /\ env' = s.env
    /\ obs' = s.obs

\* aws_atomic_fetch_sub(&v, 1) - 1 on a size_t
FetchSubNew(old) == (old - 1) % SizeMod

\* aws_atomic_fetch_add(&v, 1) on a size_t: the stored value
FetchAddNew(old) == (old + 1) % SizeMod

\* line 169: the atomic decrement of ref_count
release_fetch_sub(s) ==
    [s EXCEPT !.client.ref_count = FetchSubNew(@)]

release_should_return_always_false(new_ref_count) == FALSE

release_should_return_off_by_one(new_ref_count) == new_ref_count > 1

\* lines 171-173: a release that leaves references returns at once
release_should_return(new_ref_count) == new_ref_count > 0

\* lines 196-213, from the point where the count was found to be 0: read the
\* callback, free the client, call the callback (a NULL callback is called too)
final_release(s) ==
    LET s1 == [s EXCEPT !.client.mem = "freed",
                        !.obs.free_count = @ + 1]
    IN  IF s.client.shutdown_callback
        THEN [s1 EXCEPT !.obs.shutdown_cb_calls = @ + 1]
        ELSE [s1 EXCEPT !.obs.null_callback_called = TRUE,
                        !.obs.fault = TRUE]

\* lines 202-204
dec_should_return(new_count) == new_count > 0

dec_shutdown_wait_count_load_only(s) ==
    LET new_count == FetchSubNew(s.client.shutdown_wait_count)
    IN  IF dec_should_return(new_count) THEN s ELSE final_release(s)

\* lines 196-213
s_s3_client_dec_shutdown_wait_count(s) ==
    LET new_count == FetchSubNew(s.client.shutdown_wait_count)
        s1 == [s EXCEPT !.client.shutdown_wait_count = new_count]
    IN  IF dec_should_return(new_count) THEN s1 ELSE final_release(s1)

release_teardown_handles_then_dec(s) ==
    LET s1 == IF s.client.credentials_provider
              THEN [s EXCEPT !.env.provider_refs = @ - 1,
                             !.obs.provider_releases = @ + 1,
                             !.client.credentials_provider = FALSE]
              ELSE s
        s2 == IF s1.client.connection_manager
              THEN [s1 EXCEPT !.env.manager = "released",
                              !.obs.manager_releases = @ + 1]
              ELSE s1
    IN  s_s3_client_dec_shutdown_wait_count(s2)

\* lines 175-181: drop the provider reference, release the connection manager
release_teardown_handles(s) ==
    LET s1 == IF s.client.credentials_provider
              THEN [s EXCEPT !.env.provider_refs = @ - 1,
                             !.obs.provider_releases = @ + 1,
                             !.client.credentials_provider = FALSE]
              ELSE s
    IN  IF s1.client.connection_manager
        THEN [s1 EXCEPT !.env.manager = "released",
                        !.obs.manager_releases = @ + 1]
        ELSE s1

\* lines 182-193: clear the manager handle, destroy the two strings
release_teardown_strings(s) ==
    LET s1 == [s EXCEPT !.client.connection_manager = FALSE]
        s2 == IF s1.client.region
              THEN [s1 EXCEPT !.env.region_alloc = FALSE,
                              !.obs.string_destroys = @ + 1,
                              !.client.region = FALSE]
              ELSE s1
    IN  IF s2.client.endpoint
        THEN [s2 EXCEPT !.env.endpoint_alloc = FALSE,
                        !.obs.string_destroys = @ + 1,
                        !.client.endpoint = FALSE]
        ELSE s2

\* lines 166-194 run by one caller with nothing in between (the call made at
\* error_clean_up in aws_s3_client_new, before the client is shared)
aws_s3_client_release_whole(s) ==
    LET s1 == release_fetch_sub(s)
    IN  IF release_should_return(s1.client.ref_count)
        THEN s1
        ELSE release_teardown_strings(release_teardown_handles(
                 [s1 EXCEPT !.obs.teardown_runs = @ + 1]))

new_args_valid_bootstrap_only(cfg) == cfg.client_bootstrap

\* lines 60-74: both the bootstrap and the credentials provider are required
new_args_valid(cfg) == cfg.client_bootstrap /\ cfg.credentials_provider

\* lines 76-93: the zeroed allocation, ref_count 1, a reference on the
\* provider, the shutdown callback, shutdown_wait_count 0
new_alloc_client(s, cfg) ==
    [s EXCEPT !.client = [NoClient EXCEPT !.mem = "live",
                                          !.ref_count = 1,
                                          !.credentials_provider = TRUE,
                                          !.shutdown_callback = cfg.shutdown_callback],
              !.env.provider_refs = @ + 1]

new_manager_created_no_count(s) ==
    [s EXCEPT !.client.connection_manager = TRUE,
              !.env.manager = "live"]

\* lines 137-145: the manager was constructed; one more subsystem to wait for
new_manager_created(s) ==
    [s EXCEPT !.client.connection_manager = TRUE,
              !.env.manager = "live",
              !.client.shutdown_wait_count = FetchAddNew(@)]

\* lines 150-157
new_error_clean_up(s) ==
    [aws_s3_client_release_whole(s) EXCEPT !.obs.new_ret = "NULL"]

\* lines 53-158; fail names the allocation that fails, if any
aws_s3_client_new_result(s, cfg, fail) ==
    IF ~new_args_valid(cfg)
    THEN [s EXCEPT !.obs.new_ret = "NULL",
                   !.obs.raised = "AWS_ERROR_INVALID_ARGUMENT"]
    ELSE IF fail = "calloc"
    THEN [s EXCEPT !.obs.new_ret = "NULL"]
    ELSE LET s0 == new_alloc_client(s, cfg)
             s1 == [s0 EXCEPT !.client.region = TRUE, !.env.region_alloc = TRUE]
             s2 == [s1 EXCEPT !.client.endpoint = TRUE, !.env.endpoint_alloc = TRUE]
         IN  IF fail = "region" THEN new_error_clean_up(s0)
             ELSE IF fail = "endpoint" THEN new_error_clean_up(s1)
             ELSE IF fail = "manager" THEN new_error_clean_up(s2)
             ELSE [new_manager_created(s2) EXCEPT !.obs.new_ret = "client"]

(* ---- the request pipeline: what each handler does to one request ------- *)
\* The handlers of the request object (aws_s3_request_*), recorded as calls.
aws_s3_request_finish(c, error_code) == Append(c, <<"finish", error_code>>)

aws_s3_request_stream_complete(c, error_code) ==
    Append(c, <<"stream_complete", error_code>>)

aws_s3_request_incoming_headers(c) == Append(c, <<"incoming_headers">>)

aws_s3_request_incoming_header_block_done(c) ==
    Append(c, <<"incoming_header_block_done">>)

aws_s3_request_incoming_body(c) == Append(c, <<"incoming_body">>)

make_request_ignores_signer(q, signable_ok, sign_ok) ==
    IF ~signable_ok
    THEN [q EXCEPT !.signable = FALSE, !.ret = "AWS_OP_ERR", !.pc = "rejected"]
    ELSE IF ~sign_ok
    THEN [q EXCEPT !.signable = TRUE, !.ret = "AWS_OP_SUCCESS", !.pc = "rejected"]
    ELSE [q EXCEPT !.signable = TRUE, !.ret = "AWS_OP_SUCCESS", !.pc = "signing"]

\* s3_client_make_request, lines 219-259.  signable_ok: aws_signable_new_http_request
\* returned a signable; sign_ok: aws_sign_request_aws returned 0.
s3_client_make_request_result(q, signable_ok, sign_ok) ==
    IF ~signable_ok
    THEN [q EXCEPT !.signable = FALSE, !.ret = "AWS_OP_ERR", !.pc = "rejected"]
    ELSE IF ~sign_ok
    THEN [q EXCEPT !.signable = TRUE, !.ret = "AWS_OP_ERR", !.pc = "rejected"]
    ELSE [q EXCEPT !.signable = TRUE, !.ret = "AWS_OP_SUCCESS", !.pc = "signing"]

signing_complete_drops_apply_error(p, error_code, apply_err) ==
    IF error_code # 0
    THEN [q |-> [p.q EXCEPT !.pc = "finished"],
          c |-> aws_s3_request_finish(p.c, error_code)]
    ELSE IF apply_err # 0
    THEN [q |-> [p.q EXCEPT !.pc = "finished"], c |-> p.c]
    ELSE [q |-> [p.q EXCEPT !.pc = "acquiring"], c |-> p.c]

signing_complete_ignores_apply_error(p, error_code, apply_err) ==
    IF error_code # 0
    THEN [q |-> [p.q EXCEPT !.pc = "finished"],
          c |-> aws_s3_request_finish(p.c, error_code)]
    ELSE [q |-> [p.q EXCEPT !.pc = "acquiring"], c |-> p.c]

\* s_s3_client_signing_complete, lines 265-290.  apply_err: 0 when
\* aws_apply_signing_result_to_http_request succeeds, else aws_last_error().
s_s3_client_signing_complete_result(p, error_code, apply_err) ==
    IF error_code # 0
    THEN [q |-> [p.q EXCEPT !.pc = "finished"],
          c |-> aws_s3_request_finish(p.c, error_code)]
    ELSE IF apply_err # 0
    THEN [q |-> [p.q EXCEPT !.pc = "finished"],
          c |-> aws_s3_request_finish(p.c, apply_err)]
    ELSE [q |-> [p.q EXCEPT !.pc = "acquiring"], c |-> p.c]

on_acquire_connection_error_via_stream_complete(p, error_code, make_err, act_err) ==
    IF error_code # 0
    THEN [q |-> [p.q EXCEPT !.pc = "finished"],
          c |-> aws_s3_request_finish(
                    aws_s3_request_stream_complete(p.c, error_code), error_code)]
    ELSE IF make_err # 0
    THEN [q |-> [p.q EXCEPT !.pc = "finished", !.connection = TRUE],
          c |-> aws_s3_request_finish(p.c, make_err)]
    ELSE IF act_err # 0
    THEN [q |-> [p.q EXCEPT !.pc = "finished", !.connection = TRUE,
                            !.stream = "created"],
          c |-> aws_s3_request_finish(p.c, act_err)]
    ELSE [q |-> [p.q EXCEPT !.pc = "streaming", !.connection = TRUE,
                            !.stream = "active"],
          c |-> p.c]

\* s_s3_client_on_acquire_connection, lines 297-337.  make_err: 0 when
\* aws_http_connection_make_request returns a stream, else aws_last_error();
\* act_err: 0 when aws_http_stream_activate succeeds, else aws_last_error().
s_s3_client_on_acquire_connection_result(p, error_code, make_err, act_err) ==
    IF error_code # 0
    THEN [q |-> [p.q EXCEPT !.pc = "finished"],
          c |-> aws_s3_request_finish(p.c, error_code)]
    ELSE IF make_err # 0
    THEN [q |-> [p.q EXCEPT !.pc = "finished", !.connection = TRUE],
          c |-> aws_s3_request_finish(p.c, make_err)]
    ELSE IF act_err # 0
    THEN [q |-> [p.q EXCEPT !.pc = "finished", !.connection = TRUE,
                            !.stream = "created"],
          c |-> aws_s3_request_finish(p.c, act_err)]
    ELSE [q |-> [p.q EXCEPT !.pc = "streaming", !.connection = TRUE,
                            !.stream = "active"],
          c |-> p.c]

stream_complete_finish_first(p, error_code) ==
    [q |-> [p.q EXCEPT !.pc = "finished"],
     c |-> aws_s3_request_stream_complete(
               aws_s3_request_finish(p.c, error_code), error_code)]

\* s_s3_client_stream_complete, lines 381-390
s_s3_client_stream_complete_result(p, error_code) ==
    [q |-> [p.q EXCEPT !.pc = "finished"],
     c |-> aws_s3_request_finish(
               aws_s3_request_stream_complete(p.c, error_code), error_code)]

incoming_header_block_done_forwards_headers(c) ==
    aws_s3_request_incoming_headers(c)

\* s_s3_client_incoming_headers, line 352: forwarded to the request
s_s3_client_incoming_headers_result(c) == aws_s3_request_incoming_headers(c)

\* s_s3_client_incoming_header_block_done, line 365
s_s3_client_incoming_header_block_done_result(c) ==
    aws_s3_request_incoming_header_block_done(c)

\* s_s3_client_incoming_body, line 378
s_s3_client_incoming_body_result(c) == aws_s3_request_incoming_body(c)

(* ---- initial state ---------------------------------------------------- *)
\* before aws_s3_client_new: the caller owns one reference on its provider
InitEnv(cfg) ==
    [provider_refs |-> IF cfg.credentials_provider THEN 1 ELSE 0,
     manager |-> "none", region_alloc |-> FALSE, endpoint_alloc |-> FALSE]

InitObs ==
    [new_ret |-> "pending", raised |-> "none", fail |-> "none",
     free_count |-> 0, shutdown_cb_calls |-> 0, manager_shutdowns |-> 0,
     teardown_runs |-> 0, provider_releases |-> 0, manager_releases |-> 0,
     string_destroys |-> 0, acquires |-> 0, uaf |-> FALSE,
     null_callback_called |-> FALSE, fault |-> FALSE]

\* a request the caller has prepared and not yet handed to the pipeline
NewRequest ==
    [pc |-> "idle", ret |-> "none", signable |-> FALSE,
     connection |-> FALSE, stream |-> "none", ev |-> "open",
     bodies |-> 0, blocks |-> 0, events |-> <<>>, delivered |-> 0,
     failed_at |-> "none", code_in |-> {}, client_seen |-> "none",
     null_arg |-> FALSE]

Init ==
    /\ config \in [client_bootstrap : BOOLEAN, credentials_provider : BOOLEAN,
                   shutdown_callback : BOOLEAN]
    /\ client = NoClient
    /\ env = InitEnv(config)
    /\ obs = InitObs
    /\ held = [t \in Callers |-> 0]
    /\ rel_pc = [t \in Callers |-> "idle"]
    /\ req = [r \in Requests |-> NewRequest]
    /\ calls = [r \in Requests |-> <<>>]

(* ---- client lifecycle actions ----------------------------------------- *)
\* aws_s3_client_new, called once by caller 1, who owns the returned reference
aws_s3_client_new ==
    /\ obs.new_ret = "pending"
    /\ \E fail \in FailPoints :
        LET s == aws_s3_client_new_result(
                     [State EXCEPT !.obs.fail =
                         IF new_args_valid(config) THEN fail ELSE "none"],
                     config, fail)
        IN  /\ SetState(s)
            /\ held' = [held EXCEPT ![1] = IF s.obs.new_ret = "client" THEN 1 ELSE 0]
    /\ UNCHANGED <<config, rel_pc, req, calls>>

\* aws_s3_client_acquire (lines 160-164) by a caller that was handed the
\* client by a holder of a reference
aws_s3_client_acquire(t) ==
    /\ ~obs.fault
    /\ \E u \in Callers : held[u] > 0
    /\ obs.acquires < MaxAcquire
    /\ client' = [client EXCEPT !.ref_count = FetchAddNew(@)]
    /\ obs' = [obs EXCEPT !.acquires = @ + 1]
    /\ held' = [held EXCEPT ![t] = @ + 1]
    /\ UNCHANGED <<config, env, rel_pc, req, calls>>

\* aws_s3_client_release, lines 166-173: the atomic decrement and its test
aws_s3_client_release_dec(t) ==
    /\ ~obs.fault
    /\ held[t] > 0
    /\ rel_pc[t] = "idle"
    /\ LET s1 == release_fetch_sub(State)
       IN  IF release_should_return(s1.client.ref_count)
           THEN /\ SetState(s1)
                /\ UNCHANGED rel_pc
           ELSE /\ SetState([s1 EXCEPT !.obs.teardown_runs = @ + 1])
                /\ rel_pc' = [rel_pc EXCEPT ![t] = "handles"]
    /\ held' = [held EXCEPT ![t] = @ - 1]
    /\ UNCHANGED <<config, req, calls>>

\* aws_s3_client_release, lines 175-181
aws_s3_client_release_handles(t) ==
    /\ ~obs.fault
    /\ rel_pc[t] = "handles"
    /\ SetState(release_teardown_handles(State))
    /\ rel_pc' = [rel_pc EXCEPT ![t] = "strings"]
    /\ UNCHANGED <<config, held, req, calls>>

\* aws_s3_client_release, lines 182-193.  When the manager's shutdown callback
\* has already freed the client these lines write and read freed memory: the
\* strings are destroyed through the stale pointers, or missed, or the process
\* faults.
aws_s3_client_release_strings(t) ==
    /\ ~obs.fault
    /\ rel_pc[t] = "strings"
    /\ IF client.mem = "freed"
       THEN \E outcome \in {"stale", "missed", "fault"} :
              LET s == [State EXCEPT !.obs.uaf = TRUE]
              IN  CASE outcome = "stale" -> SetState(release_teardown_strings(s))
                    [] outcome = "missed" -> SetState(s)
                    [] outcome = "fault" -> SetState([s EXCEPT !.obs.fault = TRUE])
       ELSE SetState(release_teardown_strings(State))
    /\ rel_pc' = [rel_pc EXCEPT ![t] = "idle"]
    /\ UNCHANGED <<config, held, req, calls>>

\* The connection manager reports that its shutdown is complete (lines 134-135
\* register the callback; lines 215-217 are the callback).  The manager does so
\* once, at some time after its release at line 181.
s_s3_client_connection_manager_shutdown_callback ==
    /\ ~obs.fault
    /\ env.manager = "released"
    /\ SetState(s_s3_client_dec_shutdown_wait_count(
           [State EXCEPT !.env.manager = "shutdown",
                         !.obs.manager_shutdowns = @ + 1]))
    /\ UNCHANGED <<config, held, rel_pc, req, calls>>

Lifecycle ==
    \/ aws_s3_client_new
    \/ \E t \in Callers : aws_s3_client_acquire(t)
    \/ \E t \in Callers : aws_s3_client_release_dec(t)
    \/ \E t \in Callers : aws_s3_client_release_handles(t)
    \/ \E t \in Callers : aws_s3_client_release_strings(t)
    \/ s_s3_client_connection_manager_shutdown_callback

(* ---- request pipeline actions ----------------------------------------- *)
Req(r) == [q |-> req[r], c |-> calls[r]]

SetReq(r, p) ==
    /\ req' = [req EXCEPT ![r] = p.q]
    /\ calls' = [calls EXCEPT ![r] = p.c]

\* AWS_PRECONDITION(arg) at the head of a callback (lines 262, 294): an
\* assertion in a debug build, nothing in a release build
PreconditionOutcomes(arg_null) ==
    IF arg_null THEN {"abort", "pass"} ELSE {"pass"}

\* s3_client_make_request (lines 219-259), called by a holder of a reference
s3_client_make_request(r) ==
    /\ ~obs.fault
    /\ req[r].pc = "idle"
    /\ client.mem = "live"
    /\ \E t \in Callers : held[t] > 0
    /\ \E signable_ok \in BOOLEAN, sign_ok \in BOOLEAN :
        /\ req' = [req EXCEPT ![r] =
                     [s3_client_make_request_result(@, signable_ok, sign_ok)
                        EXCEPT !.failed_at = IF ~signable_ok THEN "signable"
                                             ELSE IF ~sign_ok THEN "signer"
                                             ELSE "none"]]
    /\ UNCHANGED <<config, client, env, obs, held, rel_pc, calls>>

\* The signer completes: s_s3_client_signing_complete (lines 261-291).  On
\* success the handler reads client->allocator and client->connection_manager
\* through request->client, which owns no reference.
s_s3_client_signing_complete(r) ==
    /\ ~obs.fault
    /\ req[r].pc = "signing"
    /\ \E error_code \in Codes, result_null \in BOOLEAN, apply_err \in Codes :
        /\ result_null => error_code # 0
        /\ \E pre \in PreconditionOutcomes(result_null) :
            LET p0 == [q |-> [req[r] EXCEPT
                                !.delivered = @ + 1,
                                !.null_arg = result_null,
                                !.failed_at = IF error_code # 0 THEN "signing"
                                              ELSE IF apply_err # 0 THEN "apply"
                                              ELSE "none",
                                !.client_seen =
                                    IF error_code # 0 THEN "none"
                                    ELSE IF /\ client.mem = "live"
                                            /\ client.ref_count >= 1
                                            /\ client.connection_manager
                                    THEN "live"
                                    ELSE "torn",
                                !.code_in = IF error_code # 0 THEN {error_code}
                                            ELSE {}],
                       c |-> calls[r]]
                p1 == s_s3_client_signing_complete_result(p0, error_code, apply_err)
            IN  IF pre = "abort"
                THEN /\ SetReq(r, p0)
                     /\ obs' = [obs EXCEPT !.fault = TRUE]
                ELSE IF error_code # 0
                THEN /\ SetReq(r, p1)
                     /\ UNCHANGED obs
                ELSE IF client.mem = "freed"
                THEN \E outcome \in {"fault", "stale"} :
                       IF outcome = "fault"
                       THEN /\ SetReq(r, p0)
                            /\ obs' = [obs EXCEPT !.uaf = TRUE, !.fault = TRUE]
                       ELSE /\ SetReq(r, p1)
                            /\ obs' = [obs EXCEPT !.uaf = TRUE]
                ELSE IF p1.q.pc = "acquiring" /\ ~client.connection_manager
                THEN /\ SetReq(r, p1)
                     /\ obs' = [obs EXCEPT !.fault = TRUE]
                ELSE /\ SetReq(r, p1)
                     /\ UNCHANGED obs
    /\ UNCHANGED <<config, client, env, held, rel_pc>>

\* The connection manager completes the acquisition:
\* s_s3_client_on_acquire_connection (lines 293-338)
s_s3_client_on_acquire_connection(r) ==
    /\ ~obs.fault
    /\ req[r].pc = "acquiring"
    /\ \E error_code \in Codes, connection_null \in BOOLEAN,
          make_err \in Codes, act_err \in Codes :
        /\ error_code = 0 => ~connection_null
        /\ \E pre \in PreconditionOutcomes(connection_null) :
            LET p0 == [q |-> [req[r] EXCEPT
                                !.delivered = @ + 1,
                                !.null_arg = connection_null,
                                !.failed_at = IF error_code # 0 THEN "acquire"
                                              ELSE IF make_err # 0 THEN "make_request"
                                              ELSE IF act_err # 0 THEN "activate"
                                              ELSE "none",
                                !.code_in = IF error_code # 0 THEN {error_code}
                                            ELSE {}],
                       c |-> calls[r]]
            IN  IF pre = "abort"
                THEN /\ SetReq(r, p0)
                     /\ obs' = [obs EXCEPT !.fault = TRUE]
                ELSE /\ SetReq(r, s_s3_client_on_acquire_connection_result(
                                      p0, error_code, make_err, act_err))
                     /\ UNCHANGED obs
    /\ UNCHANGED <<config, client, env, held, rel_pc>>

\* The stream delivers the headers of a header block:
\* s_s3_client_incoming_headers (340-353).  header_block names the block: an
\* informational block may precede the main one, a trailing block follows the
\* body.
s_s3_client_incoming_headers(r) ==
    /\ ~obs.fault
    /\ req[r].pc = "streaming"
    /\ req[r].ev \in {"open", "block_done", "body"}
    /\ req[r].blocks < MaxBlocks
    /\ SetReq(r, [q |-> [req[r] EXCEPT
                           !.ev = IF @ = "body" THEN "trailer_headers" ELSE "headers",
                           !.blocks = @ + 1,
                           !.events = Append(@, "incoming_headers"),
                           !.delivered = @ + 1],
                  c |-> s_s3_client_incoming_headers_result(calls[r])])
    /\ UNCHANGED <<config, client, env, obs, held, rel_pc>>

\* The stream ends a header block: s_s3_client_incoming_header_block_done
\* (355-366)
s_s3_client_incoming_header_block_done(r) ==
    /\ ~obs.fault
    /\ req[r].pc = "streaming"
    /\ req[r].ev \in {"headers", "trailer_headers"}
    /\ SetReq(r, [q |-> [req[r] EXCEPT
                           !.ev = IF @ = "headers" THEN "block_done"
                                  ELSE "trailer_done",
                           !.events = Append(@, "incoming_header_block_done"),
                           !.delivered = @ + 1],
                  c |-> s_s3_client_incoming_header_block_done_result(calls[r])])
    /\ UNCHANGED <<config, client, env, obs, held, rel_pc>>

\* s_s3_client_incoming_body (368-379), once per body chunk
s_s3_client_incoming_body(r) ==
    /\ ~obs.fault
    /\ req[r].pc = "streaming"
    /\ req[r].ev \in {"block_done", "body"}
    /\ req[r].bodies < MaxBody
    /\ SetReq(r, [q |-> [req[r] EXCEPT !.ev = "body", !.bodies = @ + 1,
                                       !.events = Append(@, "incoming_body"),
                                       !.delivered = @ + 1],
                  c |-> s_s3_client_incoming_body_result(calls[r])])
    /\ UNCHANGED <<config, client, env, obs, held, rel_pc>>

\* The exchange completes with error_code: s_s3_client_stream_complete (381-390)
s_s3_client_stream_complete(r) ==
    /\ ~obs.fault
    /\ req[r].pc = "streaming"
    /\ \E error_code \in Codes :
        SetReq(r, s_s3_client_stream_complete_result(
                      [q |-> [req[r] EXCEPT !.delivered = @ + 1,
                                            !.events = Append(@, "stream_complete"),
                                            !.code_in = {error_code}],
                       c |-> calls[r]],
                      error_code))
    /\ UNCHANGED <<config, client, env, obs, held, rel_pc>>

Pipeline ==
    \/ \E r \in DOMAIN req : s3_client_make_request(r)
    \/ \E r \in DOMAIN req : s_s3_client_signing_complete(r)
    \/ \E r \in DOMAIN req : s_s3_client_on_acquire_connection(r)
    \/ \E r \in DOMAIN req : s_s3_client_incoming_headers(r)
    \/ \E r \in DOMAIN req : s_s3_client_incoming_header_block_done(r)
    \/ \E r \in DOMAIN req : s_s3_client_incoming_body(r)
    \/ \E r \in DOMAIN req : s_s3_client_stream_complete(r)

Next == Lifecycle \/ Pipeline

(* ---- two requests on one client ---------------------------------------- *)
SharedRequests == {1, 2}

\* the state right after a successful aws_s3_client_new, with two requests
\* prepared by the caller
InitShared ==
    /\ config = [client_bootstrap |-> TRUE, credentials_provider |-> TRUE,
                 shutdown_callback |-> TRUE]
    /\ LET s == aws_s3_client_new_result(
                    [client |-> NoClient, env |-> InitEnv(config), obs |-> InitObs],
                    config, "none")
       IN  /\ client = s.client
           /\ env = s.env
           /\ obs = s.obs
    /\ held = [t \in Callers |-> IF t = 1 THEN 1 ELSE 0]
    /\ rel_pc = [t \in Callers |-> "idle"]
    /\ req = [r \in SharedRequests |-> NewRequest]
    /\ calls = [r \in SharedRequests |-> <<>>]

\* the caller keeps its reference; the two pipelines interleave freely
NextShared == Pipeline

SpecShared == InitShared /\ [][NextShared]_vars

(* ---- properties ------------------------------------------------------- *)
\* how often handler fn of the request object was called on request r
CallCount(r, fn) ==
    Cardinality({i \in 1..Len(calls[r]) : calls[r][i][1] = fn})

FinishCount(r) == CallCount(r, "finish")

AllReleased == \A t \in Callers : held[t] = 0 /\ rel_pc[t] = "idle"

\* C1: the client's memory has been freed only if ref_count has reached 0 and
\* shutdown_wait_count has reached 0; it is never freed while either counter
\* is still positive.
C1_FreedOnlyWhenBothCountsZero ==
    client.mem = "freed" =>
        /\ client.ref_count = 0
        /\ client.shutdown_wait_count = 0

C1_Witness ==
    /\ client.mem = "freed"
    /\ obs.free_count = 1
    /\ obs.acquires > 0

C3_FinalReleaseOnceAfterManagerShutdown ==
    /\ obs.free_count <= 1
    /\ obs.shutdown_cb_calls <= 1
    /\ (obs.free_count > 0 \/ obs.shutdown_cb_calls > 0) =>
           (env.manager = "shutdown" /\ obs.manager_shutdowns = 1)

C3_Witness ==
    /\ obs.shutdown_cb_calls = 1
    /\ obs.free_count = 1
    /\ env.manager = "shutdown"

C5_FailedNewLeavesNothingAllocated ==
    (obs.new_ret = "NULL" /\ obs.fail \in {"region", "endpoint", "manager"}) =>
        /\ env.provider_refs = 1
        /\ ~env.region_alloc
        /\ ~env.endpoint_alloc
        /\ env.manager = "none"
        /\ client.mem # "live"

\* C6: with a bootstrap and a credentials provider present and no allocation
\* failure, aws_s3_client_new returns a client with ref_count 1 and
\* shutdown_wait_count 1, having taken one reference on the provider.
C6_NewReturnsClientWithCountsOne ==
    [][(/\ obs.new_ret = "pending"
        /\ obs'.new_ret # "pending"
        /\ config.client_bootstrap
        /\ config.credentials_provider
        /\ obs'.fail = "none")
       => (/\ obs'.new_ret = "client"
           /\ client'.mem = "live"
           /\ client'.ref_count = 1
           /\ client'.shutdown_wait_count = 1
           /\ client'.credentials_provider
           /\ client'.connection_manager
           /\ env'.manager = "live"
           /\ env'.provider_refs = env.provider_refs + 1)]_vars

C6_Witness ==
    /\ obs.new_ret = "client"
    /\ obs.fail = "none"
    /\ client.ref_count = 1
    /\ client.shutdown_wait_count = 1
    /\ env.provider_refs = 2

\* C7: with the bootstrap or the credentials provider absent,
\* aws_s3_client_new returns NULL, raises AWS_ERROR_INVALID_ARGUMENT and has
\* constructed nothing; the shutdown callback is never invoked.
C7_InvalidConfigConstructsNothing ==
    (obs.new_ret # "pending"
        /\ ~(config.client_bootstrap /\ config.credentials_provider)) =>
        /\ obs.new_ret = "NULL"
        /\ obs.raised = "AWS_ERROR_INVALID_ARGUMENT"
        /\ client = NoClient
        /\ env.provider_refs = (IF config.credentials_provider THEN 1 ELSE 0)
        /\ env.manager = "none"
        /\ ~env.region_alloc /\ ~env.endpoint_alloc
        /\ obs.shutdown_cb_calls = 0
        /\ obs.free_count = 0

C7_Witness ==
    /\ obs.new_ret = "NULL"
    /\ config.client_bootstrap
    /\ ~config.credentials_provider
    /\ obs.raised = "AWS_ERROR_INVALID_ARGUMENT"

\* C8: s3_client_make_request returns an error exactly when the signable
\* cannot be constructed or the signer refuses the call, and then no pipeline
\* callback is delivered for the request and none of its handlers is called;
\* when it returns success the request's outcome comes through finish.
C8_ErrorReturnIffSynchronousRejection ==
    \A r \in Requests :
        /\ req[r].ret = "AWS_OP_ERR" <=> req[r].failed_at \in {"signable", "signer"}
        /\ req[r].ret = "AWS_OP_ERR" =>
               (req[r].delivered = 0 /\ calls[r] = <<>>)
        /\ req[r].ret = "none" => (req[r].pc = "idle" /\ calls[r] = <<>>)
        /\ (req[r].ret = "AWS_OP_SUCCESS" /\ req[r].pc = "finished") =>
               (req[r].delivered > 0 /\ FinishCount(r) = 1)

C8_Witness ==
    \E r \in Requests :
        /\ req[r].ret = "AWS_OP_ERR"
        /\ req[r].failed_at = "signer"
        /\ req[r].signable

\* C9: when the pipeline fails before a stream exists (signing completes with
\* an error, applying the signing result fails, the acquisition fails), no
\* incoming_headers, incoming_header_block_done, incoming_body or
\* stream_complete handler is called on the request; only finish is.
C9_NoStreamHandlersOnEarlyFailure ==
    \A r \in Requests :
        req[r].failed_at \in {"signing", "apply", "acquire"} =>
            /\ \A i \in 1..Len(calls[r]) : calls[r][i][1] = "finish"
            /\ req[r].stream = "none"
            /\ req[r].pc = "finished" => Len(calls[r]) = 1

C9_Witness ==
    \E r \in Requests :
        /\ req[r].failed_at = "acquire"
        /\ req[r].pc = "finished"
        /\ Len(calls[r]) = 1

\* C10: when the stream was created and activated and the exchange completes
\* with code C, stream_complete(C) is called and, directly after it,
\* finish(C) with the same C.
C10_StreamCompleteThenFinishSameCode ==
    \A r \in Requests :
        (req[r].stream = "active" /\ req[r].pc = "finished") =>
            \E C \in req[r].code_in :
                LET n == Len(calls[r])
                IN  /\ n >= 2
                    /\ calls[r][n - 1] = <<"stream_complete", C>>
                    /\ calls[r][n] = <<"finish", C>>
                    /\ CallCount(r, "stream_complete") = 1
                    /\ FinishCount(r) = 1

C10_Witness ==
    \E r \in Requests :
        /\ req[r].stream = "active"
        /\ req[r].pc = "finished"
        /\ req[r].code_in = {MaxCode}
        /\ req[r].bodies > 0

\* C11 as stated: when the signer's completion or the connection manager's
\* acquisition callback reports error code E, finish is called on the request
\* with exactly E, once, and the pipeline ends there (no second signing or
\* acquisition).
C11_ReportedCodeReachesFinish ==
    \A r \in DOMAIN req :
        req[r].failed_at \in {"signing", "acquire"} =>
            /\ \E E \in req[r].code_in : calls[r] = << <<"finish", E>> >>
            /\ req[r].pc = "finished"

StreamHandlers ==
    {"incoming_headers", "incoming_header_block_done", "incoming_body",
     "stream_complete"}

\* the stage a request is in agrees with what has happened to it so far (a
\* callback stopped by its AWS_PRECONDITION leaves the request where it was)
StagesInOrder(r) ==
    LET q == req[r]
        c == calls[r]
    IN  /\ q.pc = "idle" =>
               (q.ret = "none" /\ q.delivered = 0 /\ ~q.signable /\ c = <<>>)
        /\ q.pc = "signing" =>
               (/\ q.signable /\ c = <<>>
                /\ (q.delivered = 0 /\ q.failed_at = "none") \/ obs.fault)
        /\ q.pc \in {"idle", "rejected", "signing", "acquiring"} =>
               (~q.connection /\ q.stream = "none")
        /\ q.pc = "acquiring" =>
               (/\ c = <<>>
                /\ (q.delivered = 1 /\ q.failed_at = "none") \/ obs.fault)
        /\ (q.connection \/ q.stream # "none") =>
               (/\ q.connection
                /\ q.delivered >= 2
                /\ q.failed_at \in {"none", "make_request", "activate"})
        /\ q.pc = "streaming" =>
               (q.stream = "active" /\ q.failed_at = "none"
                   /\ \A i \in 1..Len(c) : c[i][1] # "finish")
        /\ (\E i \in 1..Len(c) : c[i][1] \in StreamHandlers) => q.stream = "active"
        /\ \A i \in 1..Len(c) : c[i][1] = "finish" => i = Len(c)

\* C12: the stages of one request run in the order Start, Signing,
\* Acquisition, Issuance, Streaming, Finish: a connection is asked for only
\* after signing succeeded and its result was applied, a stream exists only
\* after the acquisition succeeded, response events are forwarded only on an
\* activated stream, and nothing of the request runs after its finish.
C12_StagesStrictlyOrdered ==
    /\ [](\A r \in DOMAIN req : StagesInOrder(r))
    /\ [][\A r \in DOMAIN req :
            req[r].pc \in {"finished", "rejected"} =>
                (req'[r] = req[r] /\ calls'[r] = calls[r])]_vars

C12_Witness ==
    \E r \in DOMAIN req :
        /\ req[r].pc = "finished"
        /\ req[r].stream = "active"
        /\ req[r].bodies > 0
        /\ req[r].code_in = {0}
        /\ req[r].delivered >= 5

\* the place of a handler in the order the claim C13 states
HandlerRank(fn) ==
    CASE fn = "incoming_headers" -> 1
      [] fn = "incoming_header_block_done" -> 2
      [] fn = "incoming_body" -> 3
      [] fn = "stream_complete" -> 4
      [] fn = "finish" -> 5

\* C13 as stated: on each request the handler calls occur in the order
\* incoming_headers, incoming_header_block_done, incoming_body (any number),
\* stream_complete, finish, and each but incoming_body is called at most once.
C13_HandlersOrderedEachOnce ==
    \A r \in DOMAIN req :
        \A i, j \in 1..Len(calls[r]) :
            i < j =>
                /\ HandlerRank(calls[r][i][1]) <= HandlerRank(calls[r][j][1])
                /\ HandlerRank(calls[r][i][1]) = HandlerRank(calls[r][j][1]) =>
                       calls[r][i][1] = "incoming_body"

\* C13 amended: on each request, also with two requests on one client, the
\* handler calls are that request's stream events, one call per event in the
\* order delivered (incoming_headers then incoming_header_block_done once per
\* header block, incoming_body only after a completed header block);
\* stream_complete is called at most once, finish at most once and directly
\* after stream_complete when there is one, and nothing is called after finish.
C13_HandlersMirrorStreamEvents ==
    \A r \in DOMAIN req :
        LET c == calls[r]
            e == req[r].events
        IN  /\ FinishCount(r) <= 1
            /\ CallCount(r, "stream_complete") <= 1
            /\ Len(c) = Len(e) + FinishCount(r)
            /\ \A i \in 1..Len(e) : c[i] = <<e[i]>> \/
                   (e[i] = "stream_complete" /\ c[i][1] = "stream_complete")
            /\ \A i \in 1..Len(c) :
                /\ c[i][1] = "finish" => i = Len(c)
                /\ c[i][1] = "stream_complete" =>
                       (i + 1 = Len(c) /\ c[i + 1][1] = "finish")
                /\ c[i][1] = "incoming_header_block_done" =>
                       (i > 1 /\ c[i - 1][1] = "incoming_headers")
                /\ c[i][1] = "incoming_body" =>
                       (i > 1 /\ c[i - 1][1] \in
                            {"incoming_header_block_done", "incoming_body"})

C13_Witness ==
    \E r1, r2 \in DOMAIN req :
        /\ r1 # r2
        /\ req[r1].pc = "finished" /\ req[r2].pc = "finished"
        /\ req[r1].blocks = 2 /\ req[r1].bodies > 0
        /\ CallCount(r1, "incoming_headers") = 2
        /\ CallCount(r2, "incoming_headers") = 1
        /\ CallCount(r2, "stream_complete") = 1

\* C14 as stated, for the connection: when stream creation or stream
\* activation fails, the connection obtained from the pool has been released
\* by the time finish has returned.
C14_ConnectionReleasedOnStreamFailure ==
    \A r \in DOMAIN req :
        (req[r].pc = "finished" /\ req[r].failed_at \in {"make_request", "activate"}) =>
            (FinishCount(r) = 1 /\ ~req[r].connection)

\* C15 as stated: whenever a callback of an in-flight request reads the client
\* through the request's back-reference, the client has not been torn down
\* (reference count at least 1, connection manager handle set, memory not
\* freed), for every interleaving of release, the manager's shutdown callback
\* and the request's callbacks.
C15_CallbacksReadLiveClient ==
    \A r \in DOMAIN req : req[r].client_seen # "torn"

\* C16: in every reachable state the shutdown-wait count is the number of
\* owned asynchronous subsystems constructed and not yet reported shut down:
\* 1 from the construction of the connection manager until its shutdown
\* callback has fired, 0 otherwise; the unsigned counter never wraps below 0.
C16_WaitCountIsPendingSubsystems ==
    /\ client.shutdown_wait_count =
           IF env.manager \in {"live", "released"} THEN 1 ELSE 0
    /\ obs.manager_shutdowns <= 1
    /\ client.shutdown_wait_count # SizeMod - 1

C16_Witness ==
    /\ env.manager = "released"
    /\ client.ref_count = 0
    /\ client.shutdown_wait_count = 1
    /\ client.mem = "live"

\* C17 as stated: once the last reference to a successfully created client
\* has been released, and given that the connection manager reports shutdown
\* after being released, the client eventually reaches the final release: its
\* memory is freed and the user's shutdown callback has been invoked.
C17_LastReleaseLeadsToFinalRelease ==
    (obs.new_ret = "client" /\ client.mem = "live" /\ client.ref_count = 0)
        ~> (client.mem = "freed" /\ obs.shutdown_cb_calls = 1)

\* the fields other than ref_count hold what aws_s3_client_new stored in them
FieldsAsConstructed ==
    /\ client.mem = "live"
    /\ client.credentials_provider
    /\ client.connection_manager
    /\ client.region
    /\ client.endpoint
    /\ client.shutdown_callback = config.shutdown_callback
    /\ client.shutdown_wait_count = 1

\* C18: aws_s3_client_acquire and every aws_s3_client_release that leaves the
\* reference count above 0 change nothing of the client except the reference
\* count; the provider handle, the manager handle, the two strings, the
\* shutdown callback and the shutdown-wait count keep their construction-time
\* values until the release that brings the count to 0.
C18_OnlyRefCountChangesWhileReferenced ==
    /\ []((obs.new_ret = "client" /\ client.ref_count > 0) => FieldsAsConstructed)
    /\ [][(obs.new_ret = "client" /\ client.ref_count > 0 /\ client'.ref_count > 0)
            => (/\ [client' EXCEPT !.ref_count = client.ref_count] = client
                /\ env' = env)]_vars

C18_Witness ==
    /\ obs.new_ret = "client"
    /\ obs.acquires = 1
    /\ client.ref_count = 1
    /\ \E t \in Callers : held[t] = 1
    /\ FieldsAsConstructed

\* C19 as stated: the preconditions asserted at the head of the pipeline
\* callbacks hold on every invocation, error completions included: the signing
\* result and the connection passed in are non-null also when the signer or
\* the connection manager reports an error, so the error branch that calls
\* finish is always reached.
C19_CallbackArgumentsNonNull ==
    \A r \in DOMAIN req :
        /\ ~req[r].null_arg
        /\ req[r].failed_at \in {"signing", "acquire"} => FinishCount(r) = 1

\* C20 as stated: the final release invokes a shutdown callback only if the
\* configuration supplied one; a client created without a shutdown callback
\* completes its teardown by freeing its memory, with no call through the
\* absent callback.
C20_NoCallThroughAbsentCallback ==
    /\ ~obs.null_callback_called
    /\ (client.mem = "freed" /\ ~config.shutdown_callback) => ~obs.fault

Spec == Init /\ [][Next]_vars

\* The caller that dropped the last reference goes on through its release
\* call, and the connection manager, once released, reports its shutdown.
Fairness ==
    /\ WF_vars(s_s3_client_connection_manager_shutdown_callback)
    /\ \A t \in Callers :
        /\ WF_vars(aws_s3_client_release_handles(t))
        /\ WF_vars(aws_s3_client_release_strings(t))

FairSpec == Init /\ [][Next]_vars /\ Fairness
====
